---- MODULE Spec2Model ----
(***************************************************************************)
(* A model of python-varlink (src/varlink/__init__.py).                    *)
(*                                                                         *)
(*   SpecHandle  the service dispatcher: Service.handle / Service._handle  *)
(*               driven as the docstring of handle() drives it             *)
(*               (for out in service.handle(msg): connection.write(out)).  *)
(*   SpecClient  the client proxy: ClientInterfaceProxy._call and the      *)
(*               generator ClientInterfaceProxy._call_more.                *)
(*   Spec        the event loop: SimpleServer.serve with its _Connection   *)
(*               objects and the map of active reply iterators.            *)
(*   SpecLive    the event loop under the fairness of its scheduling, for  *)
(*               the progress of one connection.                           *)
(*   SpecFilter  Interface.filter_params as the proxy's calls use it.      *)
(*   SpecStream  one generator of _call_more reading its replies from the  *)
(*               bytes of a socket: _next and _nextMessage.                *)
(*                                                                         *)
(* Strings that the code splits on '.' are modelled as the sequence of     *)
(* their dot-separated segments: "x.y.Echo" is <<"x", "y", "Echo">>, the   *)
(* empty string is <<"">>, "x.y." is <<"x", "y", "">>.  Every name that    *)
(* ends up in an error's parameters is kept as such a sequence.            *)
(***************************************************************************)
EXTENDS Integers, Sequences, FiniteSets, TLC

VARIABLES
    h_pc,       \* harness of SpecHandle: "idle", "iter", "done", "raised"
    h_msg,      \* the message given to Service.handle
    h_gen,      \* the state of the generator Service.handle(message)
    h_frames,   \* the frames the generator has yielded so far, in order
    c_in_use,   \* ClientInterfaceProxy._in_use
    c_closed,   \* the proxy has closed self._connection
    c_gens,     \* the generators returned by _call_more, by identity
    c_awaiting, \* requests sent whose terminal reply has not been read
    c_last,     \* the last operation on the proxy and how it ended
    s_loop,     \* SimpleServer.serve: "running", "exited" (sys.exit), "crashed"
    s_listen,   \* connections made by peers that accept() has not returned yet
    s_conn,     \* SimpleServer.connections: fd -> _Connection
    s_epoll,    \* the epoll object: fd -> registered or not, and the event mask
    s_more,     \* SimpleServer._more: fd -> the active reply iterator
    s_sock,     \* the kernel's side of each socket: bytes to receive, the peer
    s_budget,   \* what the peers may still do: connects and requests left
    s_wire,     \* per fd: the replies its iterators yielded, the bytes sent
    s_last,     \* the last step of the loop
    f_pc,       \* filter_params: "idle", "called", "returned"
    f_args,     \* the positional tuple of the call
    f_kwargs,   \* the keyword mapping of the call
    f_out,      \* the dict filter_params returned
    m_pc,       \* a generator of _call_more over a socket: where it stands
    m_more,     \* its local `more`
    m_in_buffer, \* ClientInterfaceProxy._in_buffer
    m_yielded,  \* the values the generator has yielded, in order
    m_sock,     \* the proxy's socket: the bytes to receive, the peer's end
    m_script    \* the replies the peer has written, in order

hvars == <<h_pc, h_msg, h_gen, h_frames>>

cvars == <<c_in_use, c_closed, c_gens, c_awaiting, c_last>>

svars == <<s_loop, s_listen, s_conn, s_epoll, s_more, s_sock, s_budget, s_wire,
           s_last>>

fvars == <<f_pc, f_args, f_kwargs, f_out>>

mvars == <<m_pc, m_more, m_in_buffer, m_yielded, m_sock, m_script>>

vars == <<h_pc, h_msg, h_gen, h_frames,
          c_in_use, c_closed, c_gens, c_awaiting, c_last,
          s_loop, s_listen, s_conn, s_epoll, s_more, s_sock, s_budget, s_wire,
          s_last, f_pc, f_args, f_kwargs, f_out,
          m_pc, m_more, m_in_buffer, m_yielded, m_sock, m_script>>

----------------------------------------------------------------------------
(* Bounds *)

\* longest sequence a handler's generator yields
MaxYield == 3

\* most keys in a request's parameters object
MaxParams == 2

\* most generators obtained from _call_more on one proxy
MaxGens == 2

\* connections the peers make in all, and requests they send in all
MaxConnects == 2

MaxRequests == 2

\* bytes of the JSON text of a frame
FrameLen == 2

\* most positional arguments of a call on the proxy
MaxArgs == 2

\* most replies the peer of a streaming client call writes
MaxReplies == 3

\* connections the peers make in all where progress is checked
LiveConnects == 1

----------------------------------------------------------------------------
(* Small helpers *)

Last(s) == s[Len(s)]

Front(s) == SubSeq(s, 1, Len(s) - 1)

Range(s) == {s[i] : i \in 1..Len(s)}

IsPrefix(s, t) == Len(s) <= Len(t) /\ SubSeq(t, 1, Len(s)) = s

\* sequences over S of length at most n
SeqsUpTo(S, n) == UNION {[1..k -> S] : k \in 0..n}

\* sequences over S without repetition, of length at most n
InjSeqsUpTo(S, n) ==
    {s \in SeqsUpTo(S, n) : \A i, j \in 1..Len(s) : i # j => s[i] # s[j]}

----------------------------------------------------------------------------
(* The registered service: Service.interfaces after _add_interface.        *)
(* One user interface x.y:                                                 *)
(*     type Entry (a: string)                                              *)
(*     method Echo(msg: string) -> (msg: string)    handler: def Echo(self, msg) *)
(*     method Monitor(n: int) -> (v: int)   handler: def Monitor(self, n, _more, _oneway) *)
(*     method Todo() -> ()                  no handler attribute           *)

EmptyString == <<"">>

InterfaceXY == <<"x", "y">>

\* Interface._members of each registered interface: member name -> member
Interfaces ==
    [i \in {InterfaceXY} |->
        [m \in {"Entry", "Echo", "Monitor", "Todo"} |->
            CASE m = "Entry"   -> [kind |-> "alias",  fields |-> {"a"}]
              [] m = "Echo"    -> [kind |-> "method", fields |-> {"msg"}]
              [] m = "Monitor" -> [kind |-> "method", fields |-> {"n"}]
              [] m = "Todo"    -> [kind |-> "method", fields |-> {}]]]

\* the attributes of interface._handler that are callable, with the sentinel
\* parameters their signature declares
Handlers ==
    [i \in {InterfaceXY} |->
        [m \in {"Echo", "Monitor"} |->
            CASE m = "Echo"    -> {}
              [] m = "Monitor" -> {"_more", "_oneway"}]]

----------------------------------------------------------------------------
(* Messages and frames *)

\* the value of the 'method' field of the requests tried
MethodStrings ==
    { <<"x", "y", "Echo">>, <<"x", "y", "Monitor">>, <<"x", "y", "Todo">>,
      <<"x", "y", "Entry">>, <<"x", "y", "Nope">>,
      <<"com", "example", "Unknown", "Foo">>,
      <<"Echo">>, <<"x", "y", "">>, EmptyString }

ParameterKeys == {"msg", "n", "bogus"}

\* a decoded request object; parameters holds the keys in the dict's order
Requests ==
    [kind : {"request"},
     method : MethodStrings,
     parameters : InjSeqsUpTo(ParameterKeys, MaxParams),
     more : BOOLEAN,
     oneway : BOOLEAN]

\* a message of no bytes, and one whose bytes are not a JSON document
EmptyMessage == [kind |-> "empty", method |-> EmptyString, parameters |-> <<>>,
                 more |-> FALSE, oneway |-> FALSE]

MalformedMessage == [kind |-> "malformed", method |-> EmptyString,
                     parameters |-> <<>>, more |-> FALSE, oneway |-> FALSE]

Messages == Requests \cup {EmptyMessage, MalformedMessage}

\* a reply object: error is "" for a reply without 'error'; continues is
\* "absent" when the reply has no 'continues' key; value is the position of
\* the handler's value it carries (0: none)
Frame(error, pkey, pval, continues, value) ==
    [error |-> error, pkey |-> pkey, pval |-> pval,
     continues |-> continues, value |-> value]

NoFrame == Frame("", "", <<>>, "absent", 0)

ErrorFrame(e) == Frame(e.error, e.pkey, e.pval, "absent", 0)

InterfaceNotFound(interface) ==
    [error |-> "org.varlink.service.InterfaceNotFound",
     pkey |-> "interface", pval |-> interface]

MethodNotFound(method) ==
    [error |-> "org.varlink.service.MethodNotFound",
     pkey |-> "method", pval |-> <<method>>]

MethodNotImplemented(method) ==
    [error |-> "org.varlink.service.MethodNotImplemented",
     pkey |-> "method", pval |-> <<method>>]

InvalidParameter(name) ==
    [error |-> "org.varlink.service.InvalidParameter",
     pkey |-> "parameter", pval |-> <<name>>]

\* a VarlinkError raised by a handler; the value {'error': 'InternalError'}
HandlerError == [error |-> "x.y.HandlerError", pkey |-> "", pval |-> <<>>]

InternalError == [error |-> "InternalError", pkey |-> "", pval |-> <<>>]

NoError == [error |-> "", pkey |-> "", pval |-> <<>>]

----------------------------------------------------------------------------
(* Service._handle and Service.handle *)

\* str.rpartition('.') on a string given by its segments
RPartition(s) ==
    IF Len(s) = 1
    THEN [head |-> EmptyString, tail |-> s[1]]
    ELSE [head |-> Front(s), tail |-> Last(s)]

\* Interface.get_method: the member when it is a _Method
IsMethod(interface, name) ==
    /\ name \in DOMAIN Interfaces[interface]
    /\ Interfaces[interface][name].kind = "method"

\* the keys of parameters, in order, that are no field of the input struct
UndeclaredKeys(parameters, fields) ==
    SelectSeq(parameters, LAMBDA k : k \notin fields)

\* getattr(interface._handler, method_name, None) is callable
HasHandler(interface, name) ==
    /\ interface \in DOMAIN Handlers
    /\ name \in DOMAIN Handlers[interface]

ResolveHandlerFirst(message) ==
    LET p == RPartition(message.method)
        interface_name == p.head
        method_name == p.tail
    IN  IF interface_name = EmptyString \/ method_name = ""
        THEN InterfaceNotFound(interface_name)
        ELSE IF interface_name \notin DOMAIN Interfaces
        THEN InterfaceNotFound(interface_name)
        ELSE IF ~IsMethod(interface_name, method_name)
        THEN MethodNotFound(method_name)
        ELSE IF ~HasHandler(interface_name, method_name)
        THEN MethodNotImplemented(method_name)
        ELSE LET bad == UndeclaredKeys(message.parameters,
                            Interfaces[interface_name][method_name].fields)
             IN  IF bad # <<>>
                 THEN InvalidParameter(Head(bad))
                 ELSE NoError

\* the checks of _handle before the handler is called: the error raised, or
\* NoError
Resolve(message) ==
    LET p == RPartition(message.method)
        interface_name == p.head
        method_name == p.tail
    IN  IF interface_name = EmptyString \/ method_name = ""
        THEN InterfaceNotFound(interface_name)
        ELSE IF interface_name \notin DOMAIN Interfaces
        THEN InterfaceNotFound(interface_name)
        ELSE IF ~IsMethod(interface_name, method_name)
        THEN MethodNotFound(method_name)
        ELSE LET bad == UndeclaredKeys(message.parameters,
                            Interfaces[interface_name][method_name].fields)
             IN  IF bad # <<>>
                 THEN InvalidParameter(Head(bad))
                 ELSE IF ~HasHandler(interface_name, method_name)
                 THEN MethodNotImplemented(method_name)
                 ELSE NoError

\* the sentinel keyword arguments passed to the handler
Kwargs(message) ==
    LET p == RPartition(message.method)
        sig == Handlers[p.head][p.tail]
    IN  {k \in sig : \/ k = "_more" /\ message.more
                     \/ k = "_oneway" /\ message.oneway}

\* what a handler yields: a dict with _continues true or false, a dict
\* without _continues, a VarlinkError instance, another Exception instance
Elements == {"continues_true", "continues_false", "plain",
             "varlink_error", "exception"}

\* what calling the handler does: it returns a value, returns a generator
\* that will yield elems, or raises
HandlerOutcomes ==
    [kind : {"value", "raise_varlink", "raise_exception"}, elems : {<<>>}]
    \cup [kind : {"generator"}, elems : SeqsUpTo(Elements, MaxYield)]

\* the generator Service.handle(message): pc is where it is suspended;
\* handler is what the call of the handler did ("none": not called), elems
\* what its generator yields in all and out what it has still to yield; cont
\* and oneway_kw are the locals cont and kwargs["_oneway"]; ret is the value
\* _handle returned; calls counts the evaluations of func(*args, **kwargs)
NewGenerator ==
    [pc |-> "start", handler |-> "none", elems |-> <<>>, out |-> <<>>,
     cont |-> TRUE, oneway_kw |-> FALSE, ret |-> NoError, calls |-> 0]

\* the elements taken from the handler's generator so far
Pulled(g) == SubSeq(g.elems, 1, Len(g.elems) - Len(g.out))

\* the result of one next() on the generator
Yield(g, frame) == [gen |-> g, yielded |-> TRUE, frame |-> frame, raised |-> FALSE]

StopIteration(g) ==
    [gen |-> [g EXCEPT !.pc = "done"], yielded |-> FALSE, frame |-> NoFrame,
     raised |-> FALSE]

Raise(g) ==
    [gen |-> [g EXCEPT !.pc = "done"], yielded |-> FALSE, frame |-> NoFrame,
     raised |-> TRUE]

\* except VarlinkError as error: return error
\* except Exception as error: ... return {'error': 'InternalError'}
\* _handle is a generator: the returned value ends the iteration and the
\* loop of handle() drops it
ReturnError(g, error) == StopIteration([g EXCEPT !.ret = error])

ContAlways(o) == TRUE

\* cont after an element: True unless the element's _continues says otherwise
Cont(o) == IF o = "continues_false" THEN FALSE ELSE TRUE

\* the reply yielded for the n-th value o of the handler's generator
ReplyOf(o, n) ==
    IF o = "plain"
    THEN Frame("", "", <<>>, "absent", n)
    ELSE Frame("", "", <<>>, IF Cont(o) THEN "true" ELSE "false", n)

\* one pass of `for o in out` from the top of the loop body
Iterate(g) ==
    IF g.out = <<>>
    THEN StopIteration(g)
    ELSE LET o == Head(g.out)
             g1 == [g EXCEPT !.out = Tail(g.out)]
         IN  CASE o = "varlink_error" -> ReturnError(g1, HandlerError)
               [] o = "exception" -> ReturnError(g1, InternalError)
               [] OTHER ->
                    IF g1.oneway_kw
                    THEN StopIteration(g1)
                    ELSE Yield([g1 EXCEPT !.pc = "yield_gen", !.cont = Cont(o)],
                               ReplyOf(o, Len(Pulled(g1))))

\* the reply for a handler that returned a value
ValueReply(g) ==
    Yield([g EXCEPT !.pc = "yield_value"], Frame("", "", <<>>, "absent", 0))

\* the first next(): handle() up to json.loads, then _handle from its top;
\* h is what the handler does if it is called
Start(g, message, h) ==
    CASE message.kind = "empty" -> StopIteration(g)
      [] message.kind = "malformed" -> Raise(g)
      [] OTHER ->
            LET e == Resolve(message) IN
            IF e # NoError
            THEN ReturnError(g, e)
            ELSE LET g1 == [g EXCEPT !.oneway_kw = "_oneway" \in Kwargs(message),
                                     !.handler = h.kind,
                                     !.calls = @ + 1,
                                     !.elems = h.elems, !.out = h.elems]
                 IN  CASE h.kind = "raise_varlink" -> ReturnError(g1, HandlerError)
                       [] h.kind = "raise_exception" -> ReturnError(g1, InternalError)
                       [] h.kind = "generator" -> Iterate(g1)
                       [] OTHER -> ValueReply(g1)

\* next() on the generator Service.handle(message)
Advance(g, message, h) ==
    CASE g.pc = "start" -> Start(g, message, h)
      [] g.pc = "yield_gen" -> IF ~g.cont THEN StopIteration(g) ELSE Iterate(g)
      [] OTHER -> StopIteration(g)

\* whether the handler is called for this message
CallsHandler(message) == message.kind = "request" /\ Resolve(message) = NoError

----------------------------------------------------------------------------
(* SpecHandle: the loop `for out in service.handle(message):               *)
(*                           connection.write(out)`                         *)

HandleVarsInit ==
    /\ h_pc = "idle"
    /\ h_msg = EmptyMessage
    /\ h_gen = NewGenerator
    /\ h_frames = <<>>

\* service.handle(message): the generator object is created, nothing runs
HandleCall ==
    /\ h_pc = "idle"
    /\ \E m \in Messages : h_msg' = m
    /\ h_pc' = "iter"
    /\ h_gen' = NewGenerator
    /\ h_frames' = <<>>
    /\ UNCHANGED <<cvars, svars, fvars, mvars>>

\* one iteration of the loop
HandleNext ==
    /\ h_pc = "iter"
    /\ \E h \in HandlerOutcomes :
          /\ (h_gen.pc # "start" \/ ~CallsHandler(h_msg)) => h.kind = "value"
          /\ LET r == Advance(h_gen, h_msg, h) IN
             /\ h_gen' = r.gen
             /\ h_frames' = IF r.yielded THEN Append(h_frames, r.frame) ELSE h_frames
             /\ h_pc' = IF r.raised THEN "raised"
                        ELSE IF r.yielded THEN "iter" ELSE "done"
    /\ UNCHANGED h_msg
    /\ UNCHANGED <<cvars, svars, fvars, mvars>>

HandleNextStep == HandleCall \/ HandleNext

----------------------------------------------------------------------------
(* ClientInterfaceProxy: _call, _call_more, _nextMessage *)

\* the interface of the proxy and the method names called on it
ClientInterface == InterfaceXY

ClientMethods == {"Echo", "Monitor", "Nope"}

\* what _next() finds on the connection: a frame, or end of file
EndOfFile == [eof |-> TRUE, frame |-> NoFrame]

Incoming ==
    {EndOfFile}
    \cup {[eof |-> FALSE, frame |-> Frame("", "", <<>>, c, 0)] :
                c \in {"absent", "true", "false"}}
    \cup {[eof |-> FALSE, frame |-> ErrorFrame(HandlerError)]}

\* _nextMessage: raises ConnectionError at end of file and VarlinkError for
\* a frame with 'error', else returns (parameters, more)
NextMessage(in) ==
    CASE in.eof -> [raises |-> "ConnectionError", more |-> FALSE]
      [] in.frame.error # "" -> [raises |-> "VarlinkError", more |-> FALSE]
      [] OTHER -> [raises |-> "", more |-> in.frame.continues = "true"]

\* whether the frame read ends the call it answers
EndsCall(in) == ~in.eof /\ (in.frame.error # "" \/ in.frame.continues # "true")

PrecheckUnguarded(in_use, closed, method_name) ==
    CASE ~IsMethod(ClientInterface, method_name) -> "MethodNotFound"
      [] closed -> "OSError"
      [] OTHER -> "sent"

\* the common head of _call and _call_more, up to self._send(out): the
\* exception raised, or "sent" when the request went out
Precheck(in_use, closed, method_name) ==
    CASE in_use -> "ConnectionError"
      [] ~IsMethod(ClientInterface, method_name) -> "MethodNotFound"
      [] closed -> "OSError"
      [] OTHER -> "sent"

CallReplyKeepsOpen(in) ==
    LET r == NextMessage(in) IN
    CASE r.raises # "" -> [in_use |-> TRUE, close |-> FALSE, result |-> r.raises]
      [] r.more -> [in_use |-> FALSE, close |-> FALSE, result |-> "misuse"]
      [] OTHER -> [in_use |-> FALSE, close |-> FALSE, result |-> "return"]

\* the tail of _call after self._in_use = True: the reply is read; result is
\* the exception that leaves _call ("misuse": the ConnectionError raised
\* after closing the connection) or "return"
CallReply(in) ==
    LET r == NextMessage(in) IN
    CASE r.raises # "" -> [in_use |-> TRUE, close |-> FALSE, result |-> r.raises]
      [] r.more -> [in_use |-> FALSE, close |-> TRUE, result |-> "misuse"]
      [] OTHER -> [in_use |-> FALSE, close |-> FALSE, result |-> "return"]

NoGenerator == [pc |-> "none", method |-> "", more |-> TRUE]

NoOperation == [op |-> "none", was_in_use |-> FALSE, sent |-> 0, result |-> ""]

ClientVarsInit ==
    /\ c_in_use = FALSE
    /\ c_closed = FALSE
    /\ c_gens = [g \in 1..MaxGens |-> NoGenerator]
    /\ c_awaiting = 0
    /\ c_last = NoOperation

\* proxy.Method(...): _call from its first line to its return or raise; the
\* call blocks in _nextMessage until the frame `in` is there
Call ==
    \E m \in ClientMethods, in \in Incoming :
        LET pre == Precheck(c_in_use, c_closed, m)
            r == CallReply(in)
        IN  /\ IF pre = "sent"
               THEN /\ c_in_use' = r.in_use
                    /\ c_closed' = (c_closed \/ r.close)
                    /\ c_awaiting' = IF EndsCall(in) THEN c_awaiting
                                     ELSE c_awaiting + 1
                    /\ c_last' = [op |-> "call", was_in_use |-> c_in_use,
                                  sent |-> 1, result |-> r.result]
               ELSE /\ c_last' = [op |-> "call", was_in_use |-> c_in_use,
                                  sent |-> 0, result |-> pre]
                    /\ UNCHANGED <<c_in_use, c_closed, c_awaiting>>
            /\ UNCHANGED c_gens
            /\ UNCHANGED <<hvars, svars, fvars, mvars>>

\* proxy.Method(..., _more=True): _call_more is a generator function, the
\* call only makes the generator object
CallMore ==
    \E g \in 1..MaxGens, m \in ClientMethods :
        /\ c_gens[g].pc = "none"
        /\ c_gens' = [c_gens EXCEPT ![g] = [pc |-> "created", method |-> m,
                                            more |-> TRUE]]
        /\ c_last' = [op |-> "call_more", was_in_use |-> c_in_use,
                      sent |-> 0, result |-> "generator"]
        /\ UNCHANGED <<c_in_use, c_closed, c_awaiting>>
        /\ UNCHANGED <<hvars, svars, fvars, mvars>>

\* the loop of _call_more from (ret, more) = self._nextMessage() to the
\* yield, for generator g and the frame read
GenRead(g, in, sent) ==
    LET r == NextMessage(in) IN
    /\ c_gens' = [c_gens EXCEPT ![g].pc = IF r.raises # "" THEN "done" ELSE "yielded",
                                ![g].more = r.more]
    /\ c_awaiting' = c_awaiting + sent - (IF EndsCall(in) THEN 1 ELSE 0)
    /\ c_last' = [op |-> IF sent = 1 THEN "first_next" ELSE "next",
                  was_in_use |-> c_in_use, sent |-> sent,
                  result |-> IF r.raises # "" THEN r.raises ELSE "yield"]

\* the first next() on a generator of _call_more: its body runs from the top
GenStart ==
    \E g \in 1..MaxGens, in \in Incoming :
        /\ c_gens[g].pc = "created"
        /\ LET pre == Precheck(c_in_use, c_closed, c_gens[g].method) IN
           IF pre = "sent"
           THEN /\ c_in_use' = TRUE
                /\ GenRead(g, in, 1)
                /\ UNCHANGED c_closed
           ELSE /\ c_gens' = [c_gens EXCEPT ![g].pc = "done"]
                /\ c_last' = [op |-> "first_next", was_in_use |-> c_in_use,
                              sent |-> 0, result |-> pre]
                /\ UNCHANGED <<c_in_use, c_closed, c_awaiting>>
        /\ UNCHANGED <<hvars, svars, fvars, mvars>>

\* a later next(): the generator resumes after `yield ret`
GenNext ==
    \E g \in 1..MaxGens, in \in Incoming :
        /\ c_gens[g].pc = "yielded"
        /\ IF ~c_gens[g].more
           THEN /\ c_in_use' = FALSE
                /\ c_gens' = [c_gens EXCEPT ![g].pc = "done"]
                /\ c_last' = [op |-> "next", was_in_use |-> c_in_use,
                              sent |-> 0, result |-> "StopIteration"]
                /\ UNCHANGED c_awaiting
           ELSE /\ GenRead(g, in, 0)
                /\ UNCHANGED c_in_use
        /\ UNCHANGED c_closed
        /\ UNCHANGED <<hvars, svars, fvars, mvars>>

ClientNextStep == Call \/ CallMore \/ GenStart \/ GenNext

----------------------------------------------------------------------------
(* _Connection and SimpleServer.serve *)

Min(a, b) == IF a < b THEN a ELSE b

\* the byte b'\0'
NUL == 0

\* socket.send(...[:8192]) and socket.recv(8192)
ChunkSize == 8192

\* the cap of _Connection.events on len(self._in_buffer): 8 * 1024 * 1024 in
\* the source, here scaled down to the bytes of one frame with its NUL, so
\* that a frame held back while an iterator is active reaches it
InBufferCap == 3

\* the file descriptors accept() returns: the lowest free one is taken
FDs == {5, 6}

\* the requests the peers send, and what the handlers called for them do
ServeMessages ==
    << [kind |-> "request", method |-> <<"x", "y", "Echo">>,
        parameters |-> <<"msg">>, more |-> FALSE, oneway |-> FALSE],
       [kind |-> "request", method |-> <<"x", "y", "Monitor">>,
        parameters |-> <<>>, more |-> TRUE, oneway |-> FALSE],
       [kind |-> "request", method |-> <<"com", "example", "Unknown", "Foo">>,
        parameters |-> <<>>, more |-> FALSE, oneway |-> FALSE] >>

ServeOutcomes ==
    { [kind |-> "value", elems |-> <<>>],
      [kind |-> "generator", elems |-> <<"continues_true", "continues_false">>] }

\* json.dumps(...).encode('utf-8') of the i-th request: FrameLen bytes, none NUL
EncodeMessage(i) == [k \in 1..FrameLen |-> 10 * i + k]

\* json.loads(message): the request, or no JSON document (ValueError)
Decode(bytes) ==
    IF \E i \in 1..Len(ServeMessages) : bytes = EncodeMessage(i)
    THEN ServeMessages[CHOOSE i \in 1..Len(ServeMessages) : bytes = EncodeMessage(i)]
    ELSE MalformedMessage

\* json.dumps(out, cls=VarlinkEncoder).encode('utf-8') + b'\0' of a reply
EncodeFrame(f) ==
    [k \in 1..FrameLen |->
        IF k = 1
        THEN 100 + (CASE f.continues = "absent" -> 1
                      [] f.continues = "true" -> 2
                      [] OTHER -> 3)
        ELSE 200 + 10 * f.value + k] \o <<NUL>>

\* bytes.partition(b'\0'): the bytes before the first NUL and those after it;
\* without a NUL, all the bytes and nothing
Partition(buf) ==
    IF \E i \in 1..Len(buf) : buf[i] = NUL
    THEN LET i == CHOOSE i \in 1..Len(buf) :
                    buf[i] = NUL /\ \A j \in 1..(i - 1) : buf[j] # NUL
         IN  [message |-> SubSeq(buf, 1, i - 1), rest |-> SubSeq(buf, i + 1, Len(buf))]
    ELSE [message |-> buf, rest |-> <<>>]

\* _Connection.read: the messages it yields when run to its end, and the
\* _in_buffer it leaves
RECURSIVE Read(_)
Read(buf) ==
    LET p == Partition(buf) IN
    IF p.message = <<>>
    THEN [messages |-> <<>>, rest |-> p.rest]
    ELSE LET r == Read(p.rest)
         IN  [messages |-> <<p.message>> \o r.messages, rest |-> r.rest]

EventsInOnly(conn) ==
    IF Len(conn.in_buffer) < InBufferCap THEN {"IN"} ELSE {}

EventsUncapped(conn) ==
    {"IN"} \cup (IF conn.out_buffer # <<>> THEN {"OUT"} ELSE {})

\* _Connection.events
Events(conn) ==
    (IF Len(conn.in_buffer) < InBufferCap THEN {"IN"} ELSE {})
    \cup (IF conn.out_buffer # <<>> THEN {"OUT"} ELSE {})

\* generator.throw(ConnectionError()) on an iterator of _more, the generator
\* handle(message): the exception is raised where handle() is suspended, at
\* its yield (or at its first line when it has not started, or by throw()
\* itself when it has finished).  handle() has no try and its for loop does
\* not pass the exception on to _handle, so throw() raises ConnectionError
\* wherever the generator stands; it never ends in StopIteration
Throw(it) ==
    IF it.gen.pc \in {"start", "yield_gen", "yield_value", "done"}
    THEN "ConnectionError"
    ELSE "StopIteration"

\* whether a generator of the chain handle() -> _handle() -> out hands an
\* exception raised at its yield to the generator it iterates: handle() runs
\* _handle in a plain for loop and hands nothing on; _handle has
\* `except ConnectionError as e: out.throw(e)` around its loop over out
Forwards == [g \in {"handle", "_handle"} |-> g = "_handle"]

\* the generators in which that throw() raises the ConnectionError: the
\* iterator of _more is handle(message); the exception is raised at its
\* yield and goes further down the chain only where it is handed on
ThrownInto(it) ==
    IF it.gen.pc \notin {"yield_gen", "yield_value"} THEN {}
    ELSE {"handle"}
         \cup (IF Forwards["handle"] THEN {"_handle"} ELSE {})
         \cup (IF Forwards["handle"] /\ Forwards["_handle"]
                    /\ it.gen.handler = "generator"
               THEN {"out"} ELSE {})

NoConnection == [state |-> "none", in_buffer |-> <<>>, out_buffer |-> <<>>]

NewConnection == [state |-> "open", in_buffer |-> <<>>, out_buffer |-> <<>>]

NoIterator == [active |-> FALSE, msg |-> EmptyMessage, gen |-> NewGenerator]

NoSocket == [peer |-> "none", rx |-> <<>>]

Unregistered == [registered |-> FALSE, mask |-> {}]

\* the record of a step of the loop: read holds the messages read() yielded
\* in it, message the one whose iterator was left in _more, thrown the
\* generators the ConnectionError of a disconnect was raised in
NoStep == [op |-> "none", fd |-> 0, had_iterator |-> FALSE, read |-> <<>>,
           message |-> <<>>, thrown |-> {}]

NoWire == [frames |-> <<>>, sent |-> <<>>]

\* serve() up to its loop, with peers that will connect at most `connects`
\* times in all
ServeVarsInitOf(connects) ==
    /\ s_loop = "running"
    /\ s_listen = 0
    /\ s_conn = [fd \in FDs |-> NoConnection]
    /\ s_epoll = [fd \in FDs |-> Unregistered]
    /\ s_more = [fd \in FDs |-> NoIterator]
    /\ s_sock = [fd \in FDs |-> NoSocket]
    /\ s_budget = [connects |-> connects, requests |-> MaxRequests]
    /\ s_wire = [fd \in FDs |-> NoWire]
    /\ s_last = NoStep

ServeVarsInit == ServeVarsInitOf(MaxConnects)

\* the file descriptors of no open socket
FreeFDs == {fd \in FDs : s_sock[fd].peer = "none"}

\* a peer connects to the listening socket
PeerConnect ==
    /\ s_budget.connects > 0
    /\ s_listen < Cardinality(FreeFDs)
    /\ s_listen' = s_listen + 1
    /\ s_budget' = [s_budget EXCEPT !.connects = @ - 1]
    /\ UNCHANGED <<s_loop, s_conn, s_epoll, s_more, s_sock, s_wire, s_last>>
    /\ UNCHANGED <<hvars, cvars, fvars, mvars>>

\* the frame a peer sends that is no JSON document
Garbage == Len(ServeMessages) + 1

\* a peer sends one frame on its connection: a request, or garbage
PeerSend ==
    \E fd \in FDs, i \in 1..Garbage :
        /\ s_sock[fd].peer = "open"
        /\ s_budget.requests > 0
        /\ s_sock' = [s_sock EXCEPT ![fd].rx = @ \o EncodeMessage(i) \o <<NUL>>]
        /\ s_budget' = [s_budget EXCEPT !.requests = @ - 1]
        /\ UNCHANGED <<s_loop, s_listen, s_conn, s_epoll, s_more, s_wire, s_last>>
        /\ UNCHANGED <<hvars, cvars, fvars, mvars>>

\* a peer closes its end of the connection
PeerClose ==
    \E fd \in FDs :
        /\ s_sock[fd].peer = "open"
        /\ s_sock' = [s_sock EXCEPT ![fd].peer = "closed"]
        /\ UNCHANGED <<s_loop, s_listen, s_conn, s_epoll, s_more, s_budget, s_wire,
                       s_last>>
        /\ UNCHANGED <<hvars, cvars, fvars, mvars>>

\* the branch fd == s.fileno() of the loop: accept and register for EPOLLIN
Accept ==
    /\ s_loop = "running"
    /\ s_listen > 0
    /\ LET fd == CHOOSE f \in FreeFDs : \A g \in FreeFDs : f <= g IN
       /\ s_conn' = [s_conn EXCEPT ![fd] = NewConnection]
       /\ s_epoll' = [s_epoll EXCEPT ![fd] = [registered |-> TRUE, mask |-> {"IN"}]]
       /\ s_sock' = [s_sock EXCEPT ![fd] = [peer |-> "open", rx |-> <<>>]]
       /\ s_wire' = [s_wire EXCEPT ![fd] = NoWire]
       /\ s_last' = [NoStep EXCEPT !.op = "accept", !.fd = fd,
                                   !.had_iterator = s_more[fd].active]
    /\ s_listen' = s_listen - 1
    /\ UNCHANGED <<s_loop, s_more, s_budget>>
    /\ UNCHANGED <<hvars, cvars, fvars, mvars>>

\* the events epoll.poll() reports for fd: those of its mask that are ready.
\* The socket is taken to be writable whenever EPOLLOUT is asked for; it is
\* readable when bytes wait or the peer has closed
Ready(fd) ==
    IF ~s_epoll[fd].registered THEN {}
    ELSE s_epoll[fd].mask
         \cap ({"OUT"} \cup (IF s_sock[fd].rx # <<>> \/ s_sock[fd].peer = "closed"
                              THEN {"IN"} ELSE {}))

\* _Connection.dispatch(events) fails: send() to a peer that is gone, or a
\* recv() of no bytes
DispatchFails(fd, events) ==
    \/ "OUT" \in events /\ s_sock[fd].peer = "closed"
    \/ "IN" \in events /\ s_sock[fd].rx = <<>>

\* what socket.send(self._out_buffer[:8192]) may return on a writable socket,
\* and the length of what socket.recv(8192) may return when bytes are there
SendSizes(fd, events) ==
    IF "OUT" \in events
    THEN 1..Min(Len(s_conn[fd].out_buffer), ChunkSize) ELSE {0}

RecvSizes(fd, events) ==
    IF "IN" \in events THEN 1..Min(Len(s_sock[fd].rx), ChunkSize) ELSE {0}

\* except ConnectionError: the connection is unregistered and closed and the
\* exception is thrown into its iterator; what throw() raises is not caught
Disconnect(fd) ==
    /\ s_epoll' = [s_epoll EXCEPT ![fd] = Unregistered]
    /\ s_conn' = [s_conn EXCEPT ![fd].state = "closed"]
    /\ s_sock' = [s_sock EXCEPT ![fd] = NoSocket]
    /\ IF s_more[fd].active
       THEN IF Throw(s_more[fd]) = "StopIteration"
            THEN s_more' = [s_more EXCEPT ![fd] = NoIterator] /\ s_loop' = s_loop
            ELSE s_more' = s_more /\ s_loop' = "crashed"
       ELSE UNCHANGED <<s_more, s_loop>>
    /\ s_last' = [NoStep EXCEPT !.op = "disconnect", !.fd = fd,
                                !.had_iterator = s_more[fd].active,
                                !.thrown = IF s_more[fd].active
                                           THEN ThrownInto(s_more[fd]) ELSE {}]
    /\ UNCHANGED <<s_listen, s_budget, s_wire>>

\* self._out_buffer = self._out_buffer[n:] after send() returned n
Unsent(out_buffer, n) == SubSeq(out_buffer, n + 1, Len(out_buffer))

WriteInFront(out_buffer, message) == message \o out_buffer

\* _Connection.write
Write(out_buffer, message) == out_buffer \o message

ReadMessagesUnguarded(active, in_buffer) == Read(in_buffer)

\* if not fd in self._more: for message in connection.read(): ...
\* the messages read and the _in_buffer left, read() running to its end
ReadMessages(active, in_buffer) ==
    IF active
    THEN [messages |-> <<>>, rest |-> in_buffer]
    ELSE Read(in_buffer)

\* the body of the try for a connection whose dispatch() succeeds: n bytes
\* are sent, k bytes received, then frames are read and the iterator advanced
Serve(fd, events, n, k, h) ==
    LET conn == s_conn[fd]
        out1 == IF "OUT" \in events
                THEN Unsent(conn.out_buffer, n)
                ELSE conn.out_buffer
        data == IF "IN" \in events THEN SubSeq(s_sock[fd].rx, 1, k) ELSE <<>>
        rx1 == IF "IN" \in events
               THEN SubSeq(s_sock[fd].rx, k + 1, Len(s_sock[fd].rx))
               ELSE s_sock[fd].rx
        in1 == conn.in_buffer \o data
    IN  \E r \in {ReadMessages(s_more[fd].active, in1)} :
        \E it \in {IF r.messages # <<>>
                    THEN [active |-> TRUE, msg |-> Decode(Last(r.messages)),
                          gen |-> NewGenerator]
                    ELSE s_more[fd]} :
        \E a \in {Advance(it.gen, it.msg, h)} :
        LET out2 == IF it.active /\ a.yielded
                    THEN Write(out1, EncodeFrame(a.frame)) ELSE out1
            conn2 == [conn EXCEPT !.in_buffer = r.rest, !.out_buffer = out2]
        IN  /\ s_sock' = [s_sock EXCEPT ![fd].rx = rx1]
            /\ s_conn' = [s_conn EXCEPT ![fd] = conn2]
            /\ s_more' = [s_more EXCEPT ![fd] =
                            IF ~it.active THEN it
                            ELSE IF a.yielded \/ a.raised THEN [it EXCEPT !.gen = a.gen]
                            ELSE NoIterator]
            /\ s_loop' = IF it.active /\ a.raised THEN "exited" ELSE s_loop
            /\ s_epoll' = IF it.active /\ a.raised THEN s_epoll
                          ELSE [s_epoll EXCEPT ![fd].mask = Events(conn2)]
            /\ s_wire' = [s_wire EXCEPT
                            ![fd].sent = IF "OUT" \in events
                                         THEN @ \o SubSeq(conn.out_buffer, 1, n) ELSE @,
                            ![fd].frames = IF it.active /\ a.yielded
                                           THEN Append(@, a.frame) ELSE @]
            /\ s_last' = [NoStep EXCEPT !.op = "tick", !.fd = fd,
                                        !.had_iterator = s_more[fd].active,
                                        !.read = r.messages,
                                        !.message = IF r.messages # <<>>
                                                    THEN Last(r.messages) ELSE <<>>]
            /\ UNCHANGED <<s_listen, s_budget>>

\* the (fd, events) pair epoll.poll() reports for the connection fd
TickOn(fd) ==
    /\ s_loop = "running"
    /\ s_conn[fd].state = "open"
    /\ Ready(fd) # {}
    /\ LET events == Ready(fd) IN
       IF DispatchFails(fd, events)
       THEN Disconnect(fd)
       ELSE \E n \in SendSizes(fd, events), k \in RecvSizes(fd, events),
               h \in ServeOutcomes :
                Serve(fd, events, n, k, h)
    /\ UNCHANGED <<hvars, cvars, fvars, mvars>>

\* one (fd, events) pair of epoll.poll() for a connection
Tick == \E fd \in FDs : TickOn(fd)

ServeNextStep == PeerConnect \/ PeerSend \/ PeerClose \/ Accept \/ Tick

----------------------------------------------------------------------------
(* Interface.filter_params, as _call and _call_more use it:                *)
(*     sparam = self._interface.filter_params(method.in_type, args, kwargs) *)
(* for a method Two(a: int, b: int): in_type is a _Struct with the fields  *)
(* a and b, in this order, both of a type that is no struct, for which     *)
(* filter_params returns the value unchanged.                              *)

\* the names of method.in_type.fields, in the order of the OrderedDict
StructFields == <<"a", "b">>

\* the values passed
ArgValues == {1, 2}

\* the tuples *args and the dicts **kwargs of the calls tried
ArgTuples == SeqsUpTo(ArgValues, MaxArgs)

KeywordDicts == UNION {[names -> ArgValues] : names \in SUBSET Range(StructFields)}

EmptyDict == [names \in {} |-> 0]

\* the local `args` at the top of filter_params for a struct: the tuple
\* passed; the loop sets it to None once its last element is taken
TupleArgs(items) == [is_tuple |-> TRUE, items |-> items]

NoneArgs == [is_tuple |-> FALSE, items |-> <<>>]

\* out with out[name] = val
SetItem(out, name, val) ==
    [n \in DOMAIN out \cup {name} |-> IF n = name THEN val ELSE out[n]]

\* the loop `for name in vtype.fields` from the field fields[1] on, with the
\* locals args and out; mystruct is None for a tuple
RECURSIVE FilterFields(_, _, _, _)
FilterFields(fields, args, kwargs, out) ==
    IF fields = <<>> THEN out
    ELSE LET name == Head(fields) IN
         IF args.is_tuple
         THEN IF args.items # <<>>
              THEN FilterFields(Tail(fields),
                                IF Len(args.items) > 1
                                THEN TupleArgs(Tail(args.items)) ELSE NoneArgs,
                                kwargs, SetItem(out, name, Head(args.items)))
              ELSE IF name \in DOMAIN kwargs
                   THEN FilterFields(Tail(fields), args, kwargs,
                                     SetItem(out, name, kwargs[name]))
                   ELSE FilterFields(Tail(fields), args, kwargs, out)
         ELSE FilterFields(Tail(fields), args, kwargs, out)

\* filter_params(vtype, args, kwargs) for the struct and a tuple args
FilterParams(fields, args, kwargs) ==
    FilterFields(fields, TupleArgs(args), kwargs, EmptyDict)

FilterVarsInit ==
    /\ f_pc = "idle"
    /\ f_args = <<>>
    /\ f_kwargs = EmptyDict
    /\ f_out = EmptyDict

\* proxy.Two(*args, **kwargs) reaches the call of filter_params
FilterCall ==
    /\ f_pc \in {"idle", "returned"}
    /\ f_pc' = "called"
    /\ f_args' \in ArgTuples
    /\ f_kwargs' \in KeywordDicts
    /\ f_out' = EmptyDict
    /\ UNCHANGED <<hvars, cvars, svars, mvars>>

\* filter_params returns sparam
FilterReturn ==
    /\ f_pc = "called"
    /\ f_pc' = "returned"
    /\ f_out' = FilterParams(StructFields, f_args, f_kwargs)
    /\ UNCHANGED <<f_args, f_kwargs>>
    /\ UNCHANGED <<hvars, cvars, svars, mvars>>

FilterNextStep == FilterCall \/ FilterReturn

----------------------------------------------------------------------------
(* ClientInterfaceProxy._call_more over a socket: _next and _nextMessage   *)
(* with the bytes of the connection.  The peer answers the call with       *)
(* replies whose parameters are numbered 1, 2, ... in the order written.   *)

\* the replies the peer may write as its n-th
StreamReplies(n) ==
    {Frame("", "", <<>>, c, n) : c \in {"absent", "true", "false"}}

\* json.loads(message) in _nextMessage: the reply, or no JSON document
\* (ValueError)
DecodeReply(message) ==
    LET whole == {f \in UNION {StreamReplies(n) : n \in 1..MaxReplies} :
                        EncodeFrame(f) = message \o <<NUL>>}
    IN  IF whole # {}
        THEN [valid |-> TRUE, frame |-> CHOOSE f \in whole : TRUE]
        ELSE [valid |-> FALSE, frame |-> NoFrame]

NoClientSocket == [rx |-> <<>>, peer |-> "open"]

StreamVarsInit ==
    /\ m_pc = "created"
    /\ m_more = TRUE
    /\ m_in_buffer = <<>>
    /\ m_yielded = <<>>
    /\ m_sock = NoClientSocket
    /\ m_script = <<>>

\* the peer writes its next reply
StreamPeerWrite ==
    /\ m_sock.peer = "open"
    /\ Len(m_script) < MaxReplies
    /\ \E f \in StreamReplies(Len(m_script) + 1) :
          /\ m_script' = Append(m_script, f)
          /\ m_sock' = [m_sock EXCEPT !.rx = @ \o EncodeFrame(f)]
    /\ UNCHANGED <<m_pc, m_more, m_in_buffer, m_yielded>>
    /\ UNCHANGED <<hvars, cvars, svars, fvars>>

\* the peer closes its end
StreamPeerClose ==
    /\ m_sock.peer = "open"
    /\ m_sock' = [m_sock EXCEPT !.peer = "closed"]
    /\ UNCHANGED <<m_pc, m_more, m_in_buffer, m_yielded, m_script>>
    /\ UNCHANGED <<hvars, cvars, svars, fvars>>

\* next() on the generator when it is new, or suspended at `yield ret`: the
\* request is sent and the loop entered, or `if not more: break` is run
StreamResume ==
    /\ m_pc \in {"created", "yielded"}
    /\ m_pc' = IF m_pc = "yielded" /\ ~m_more THEN "done" ELSE "_next"
    /\ UNCHANGED <<m_more, m_in_buffer, m_yielded, m_sock, m_script>>
    /\ UNCHANGED <<hvars, cvars, svars, fvars>>

\* one pass of the `while True` of _next, inside _nextMessage, inside the
\* loop of _call_more: a message found is decoded and yielded (or the
\* exception raised); else recv() is called, which blocks while there is
\* nothing to receive and the peer is there
StreamNext ==
    /\ m_pc = "_next"
    /\ LET p == Partition(m_in_buffer) IN
       IF p.message # <<>>
       THEN LET d == DecodeReply(p.message)
                r == NextMessage([eof |-> FALSE, frame |-> d.frame])
            IN  /\ m_in_buffer' = p.rest
                /\ IF ~d.valid
                   THEN /\ m_pc' = "ValueError"
                        /\ UNCHANGED <<m_more, m_yielded>>
                   ELSE IF r.raises # ""
                   THEN /\ m_pc' = r.raises
                        /\ UNCHANGED <<m_more, m_yielded>>
                   ELSE /\ m_pc' = "yielded"
                        /\ m_more' = r.more
                        /\ m_yielded' = Append(m_yielded, d.frame.value)
                /\ UNCHANGED m_sock
       ELSE /\ m_sock.rx # <<>> \/ m_sock.peer = "closed"
            /\ IF m_sock.rx = <<>>
               THEN /\ m_pc' = NextMessage(EndOfFile).raises
                    /\ m_in_buffer' = p.rest
                    /\ UNCHANGED m_sock
               ELSE \E k \in 1..Min(Len(m_sock.rx), ChunkSize) :
                        /\ m_in_buffer' = p.rest \o SubSeq(m_sock.rx, 1, k)
                        /\ m_sock' = [m_sock EXCEPT
                                          !.rx = SubSeq(@, k + 1, Len(@))]
                        /\ m_pc' = m_pc
            /\ UNCHANGED <<m_more, m_yielded>>
    /\ UNCHANGED m_script
    /\ UNCHANGED <<hvars, cvars, svars, fvars>>

StreamNextStep == StreamPeerWrite \/ StreamPeerClose \/ StreamResume \/ StreamNext

----------------------------------------------------------------------------
(* The specifications *)

VarsInit ==
    /\ HandleVarsInit /\ ClientVarsInit /\ ServeVarsInit /\ FilterVarsInit
    /\ StreamVarsInit

SpecHandle == VarsInit /\ [][HandleNextStep]_vars

SpecClient == VarsInit /\ [][ClientNextStep]_vars

Spec == VarsInit /\ [][ServeNextStep]_vars

\* the loop under its scheduling: `while True: for fd, events in
\* epoll.poll()` handles every pair poll() reports, and the level-triggered
\* epoll reports a registered descriptor for as long as it is ready, so a
\* connection that stays ready is ticked and a pending connect is accepted;
\* nothing makes a peer connect, send or close
LiveVarsInit ==
    /\ HandleVarsInit /\ ClientVarsInit /\ ServeVarsInitOf(LiveConnects)
    /\ FilterVarsInit /\ StreamVarsInit

SpecLive ==
    /\ LiveVarsInit
    /\ [][ServeNextStep]_vars
    /\ WF_vars(Accept)
    /\ \A fd \in FDs : WF_vars(TickOn(fd))

SpecFilter == VarsInit /\ [][FilterNextStep]_vars

SpecStream == VarsInit /\ [][StreamNextStep]_vars

----------------------------------------------------------------------------
(* Claims about the dispatcher, under SpecHandle *)

\* the call of h_msg is over: the loop over handle(h_msg) has ended
CallOver == h_pc = "done" /\ h_msg.kind = "request"

\* a reply is terminal when it has no 'continues' or carries continues: false
Terminal(frame) == frame.continues # "true"

\* C1: a request naming an interface that is not registered is answered by
\* exactly one frame {error: InterfaceNotFound, parameters: {interface:
\* name}}, and a request naming a method the registered interface does not
\* declare by exactly one frame with error MethodNotFound.
C1_UnknownNamesAnswered ==
    CallOver =>
        LET p == RPartition(h_msg.method) IN
        /\ (p.head # EmptyString /\ p.tail # "" /\ p.head \notin DOMAIN Interfaces
                => h_frames = <<ErrorFrame(InterfaceNotFound(p.head))>>)
        /\ (p.tail # "" /\ p.head \in DOMAIN Interfaces /\ ~IsMethod(p.head, p.tail)
                => /\ Len(h_frames) = 1
                   /\ h_frames[1].error = "org.varlink.service.MethodNotFound")

\* C2: a request to an existing method whose parameters hold a key k that is
\* no field of the method's input struct is answered by exactly the frame
\* {error: InvalidParameter, parameters: {parameter: k}}.
C2_UndeclaredKeyAnswered ==
    CallOver =>
        LET p == RPartition(h_msg.method) IN
        (p.head \in DOMAIN Interfaces /\ IsMethod(p.head, p.tail)
            /\ UndeclaredKeys(h_msg.parameters, Interfaces[p.head][p.tail].fields) # <<>>)
        => \E k \in Range(UndeclaredKeys(h_msg.parameters,
                                          Interfaces[p.head][p.tail].fields)) :
                h_frames = <<ErrorFrame(InvalidParameter(k))>>

\* C3: no reply frame is ever emitted for a request that carries oneway: true,
\* whatever the handler returns and whatever its signature declares.
C3_OnewayEmitsNothing ==
    (h_msg.kind = "request" /\ h_msg.oneway) => h_frames = <<>>

\* a streaming call: the request carries more: true (and is not oneway)
Streaming == h_msg.kind = "request" /\ h_msg.more /\ ~h_msg.oneway

\* exactly n frames, in the order of the handler's values, the first n-1
\* with continues: true and the last terminal
StreamOf(n) ==
    /\ Len(h_frames) = n
    /\ \A i \in 1..n : h_frames[i].value = i
    /\ \A i \in 1..(n - 1) : h_frames[i].continues = "true"
    /\ n > 0 => Terminal(h_frames[n])

IsValue(o) == o \in {"continues_true", "continues_false", "plain"}

\* C4 as stated: whenever a streaming call is over and the handler's
\* generator was made to yield N values, exactly N frames were emitted, the
\* first N-1 with continues: true and the last terminal.
C4_AnyStreamWellFormed ==
    (CallOver /\ Streaming /\ h_gen.handler = "generator"
        /\ \A i \in 1..Len(Pulled(h_gen)) : IsValue(Pulled(h_gen)[i]))
    => StreamOf(Len(Pulled(h_gen)))

\* the handler marks its values itself: all but the last carry _continues:
\* true, the last carries _continues: false or no _continues
MarkedByHandler(elems) ==
    /\ elems # <<>>
    /\ \A i \in 1..(Len(elems) - 1) : elems[i] = "continues_true"
    /\ Last(elems) \in {"continues_false", "plain"}

\* C4 (amended): when the handler of a streaming call yields N values of
\* which the first N-1 carry _continues: true and the last carries
\* _continues: false or no _continues, exactly N frames are emitted, in
\* order, the first N-1 with continues: true and the last terminal.
C4_MarkedStreamWellFormed ==
    (CallOver /\ Streaming /\ h_gen.handler = "generator"
        /\ MarkedByHandler(h_gen.elems))
    => StreamOf(Len(h_gen.elems))

\* a streaming call of three values marked true, true, false is over
C4_Witness ==
    /\ CallOver /\ Streaming /\ h_gen.handler = "generator"
    /\ h_gen.elems = <<"continues_true", "continues_true", "continues_false">>
    /\ Len(h_frames) = 3

\* C5: within one call no frame follows a terminal frame: every frame but
\* the last one emitted carries continues: true.
C5_NothingAfterTerminal ==
    \A i \in 1..(Len(h_frames) - 1) : ~Terminal(h_frames[i])

\* C6: a frame with continues: true is only ever emitted in answer to a
\* request that carried more: true.
C6_ContinuesOnlyForMore ==
    \A i \in 1..Len(h_frames) :
        h_frames[i].continues = "true" => h_msg.more

\* C12: a call whose handler raises an exception that is no VarlinkError is
\* answered by exactly one frame, {error: InternalError}.
C12_UnexpectedFaultAnswered ==
    (CallOver /\ h_gen.handler = "raise_exception")
        => h_frames = <<ErrorFrame(InternalError)>>

\* the four checks a request passes before its handler is called, each
\* presupposing the ones before it
InterfaceRegistered(m) ==
    LET p == RPartition(m.method) IN
    p.head # EmptyString /\ p.tail # "" /\ p.head \in DOMAIN Interfaces

MethodDeclared(m) ==
    LET p == RPartition(m.method) IN
    /\ InterfaceRegistered(m)
    /\ p.tail \in DOMAIN Interfaces[p.head]
    /\ Interfaces[p.head][p.tail].kind = "method"

\* the position of the first key of the parameters that is no input field
\* (0: every key is declared)
FirstUndeclared(m) ==
    LET p == RPartition(m.method)
        bad == {i \in 1..Len(m.parameters) :
                    m.parameters[i] \notin Interfaces[p.head][p.tail].fields}
    IN  IF bad = {} THEN 0 ELSE CHOOSE i \in bad : \A j \in bad : i <= j

HandlerExists(m) ==
    LET p == RPartition(m.method) IN
    p.head \in DOMAIN Handlers /\ p.tail \in DOMAIN Handlers[p.head]

\* C22: the dispatcher calls a handler at most once per request and only
\* when the interface is registered, the method is declared, every key of
\* the parameters is a declared input field and a callable handler exists;
\* the checks run in that order, so the request ends with the error of the
\* first check it fails (an undeclared key on a method without handler ends
\* with InvalidParameter, not MethodNotImplemented).
C22_ChecksOrderedBeforeHandler ==
    (h_msg.kind = "request" /\ h_gen.pc # "start") =>
        /\ h_gen.calls <= 1
        /\ IF ~InterfaceRegistered(h_msg)
           THEN /\ h_gen.calls = 0
                /\ h_gen.ret.error = "org.varlink.service.InterfaceNotFound"
           ELSE IF ~MethodDeclared(h_msg)
           THEN /\ h_gen.calls = 0
                /\ h_gen.ret.error = "org.varlink.service.MethodNotFound"
           ELSE IF FirstUndeclared(h_msg) # 0
           THEN /\ h_gen.calls = 0
                /\ h_gen.ret.error = "org.varlink.service.InvalidParameter"
                /\ h_gen.ret.pval = <<h_msg.parameters[FirstUndeclared(h_msg)]>>
           ELSE IF ~HandlerExists(h_msg)
           THEN /\ h_gen.calls = 0
                /\ h_gen.ret.error = "org.varlink.service.MethodNotImplemented"
           ELSE h_gen.calls = 1

\* a request to the method without handler, with an undeclared key, has
\* ended with InvalidParameter and no handler was called
C22_Witness ==
    /\ CallOver
    /\ h_msg.method = <<"x", "y", "Todo">>
    /\ h_msg.parameters = <<"bogus">>
    /\ h_gen.calls = 0
    /\ h_gen.ret = InvalidParameter("bogus")

\* C24: when the call of a oneway request to a handler that returns a
\* generator of values is over, no frame was emitted and every element of
\* the handler's generator has been pulled.
C24_OnewayConsumesSequence ==
    (CallOver /\ h_msg.oneway /\ h_gen.handler = "generator"
        /\ \A i \in 1..Len(h_gen.elems) : IsValue(h_gen.elems[i]))
    => (h_frames = <<>> /\ Pulled(h_gen) = h_gen.elems)

----------------------------------------------------------------------------
(* Claims about the client proxy, under SpecClient *)

\* the last operation tried to start a call: _call, or the first next() of a
\* generator of _call_more
AttemptedCall == c_last.op \in {"call", "first_next"}

\* C7: at most one request sent on the proxy's connection awaits its terminal
\* reply, and a call attempted while in_use is true fails with the
\* ConnectionError of a busy connection and sends nothing.
C7_SingleCallInFlight ==
    /\ c_awaiting <= 1
    /\ (AttemptedCall /\ c_last.was_in_use)
            => (c_last.result = "ConnectionError" /\ c_last.sent = 0)

\* a normal call was refused as busy while a streaming call is partially
\* consumed and another generator has not been started
C7_Witness ==
    /\ c_last.op = "call" /\ c_last.was_in_use /\ c_last.sent = 0
    /\ c_awaiting = 1
    /\ \E g \in 1..MaxGens : c_gens[g].pc = "yielded" /\ c_gens[g].more
    /\ \E g \in 1..MaxGens : c_gens[g].pc = "created"

\* C8: after a normal call that returned the reply's parameters or raised
\* the structured error of an error reply, in_use is false.
C8_InUseClearedAfterCall ==
    (c_last.op = "call" /\ c_last.result \in {"return", "VarlinkError"})
        => ~c_in_use

\* a streaming call is in flight: its generator is suspended after a reply
\* with continues: true
StreamInFlight == \E g \in 1..MaxGens : c_gens[g].pc = "yielded" /\ c_gens[g].more

\* C9 as stated: both client usage errors, a call attempted while one is in
\* flight and continues: true in reply to a normal call, close the connection.
C9_UsageErrorsClose ==
    \/ (AttemptedCall /\ c_last.was_in_use /\ StreamInFlight)
    \/ (c_last.op = "call" /\ c_last.result = "misuse")
    => c_closed

\* C9 (amended): continues: true in reply to a normal call closes the
\* connection and the call fails; a call attempted while one is in flight
\* fails and leaves the connection open.
C9_OnlyMisuseCloses ==
    /\ (c_last.op = "call" /\ c_last.result = "misuse") => c_closed
    /\ (AttemptedCall /\ c_last.was_in_use)
            => (c_last.result = "ConnectionError" /\ ~c_closed)

\* a normal call was answered with continues: true
C9_Witness ==
    c_last.op = "call" /\ c_last.result = "misuse" /\ c_closed /\ ~c_in_use

----------------------------------------------------------------------------
(* Claims about the event loop, under Spec *)

\* C10: when a peer disconnects while its connection has an active reply
\* iterator, the loop unregisters and closes the connection, removes the
\* iterator from the map of active iterators and keeps running.
C10_DisconnectKeepsLoopRunning ==
    (s_last.op = "disconnect" /\ s_last.had_iterator)
        => /\ ~s_epoll[s_last.fd].registered
           /\ s_conn[s_last.fd].state = "closed"
           /\ ~s_more[s_last.fd].active
           /\ s_loop = "running"

\* a streaming call is cut by a disconnect: the iterator of the connection
\* is suspended after a reply of the handler's generator that continues
CutMidStream ==
    /\ s_last.op = "disconnect" /\ s_last.had_iterator
    /\ s_more[s_last.fd].msg.more
    /\ s_more[s_last.fd].gen.handler = "generator"
    /\ s_more[s_last.fd].gen.pc = "yield_gen"
    /\ s_more[s_last.fd].gen.cont

\* C11: when the peer disconnects in the middle of a streaming call, the
\* ConnectionError the loop throws into the iterator is raised in the
\* generator the handler returned.
C11_CancellationReachesHandler ==
    CutMidStream => "out" \in s_last.thrown

\* C13: a frame that is no JSON document closes the connection it came on
\* and leaves the loop running.
C13_MalformedClosesConnection ==
    (s_last.op = "tick" /\ s_last.message = EncodeMessage(Garbage))
        => /\ s_loop = "running"
           /\ s_conn[s_last.fd].state = "closed"
           /\ ~s_epoll[s_last.fd].registered

\* C14: every message read() hands over is one of the frames the peer sent,
\* whole: the bytes of a frame whose NUL has not come are not handed over.
C14_OnlyWholeFramesRead ==
    s_last.op = "tick" =>
        \A i \in 1..Len(s_last.read) :
            \E j \in 1..Garbage : s_last.read[i] = EncodeMessage(j)

RECURSIVE EncodeAll(_)
EncodeAll(frames) ==
    IF frames = <<>> THEN <<>>
    ELSE EncodeFrame(Head(frames)) \o EncodeAll(Tail(frames))

\* C16: the bytes sent on a connection's socket are a prefix of the encoded
\* replies its calls produced, in the order they were produced.
C16_SentIsPrefixOfReplies ==
    \A fd \in FDs : IsPrefix(s_wire[fd].sent, EncodeAll(s_wire[fd].frames))

\* two replies were produced and sent in pieces: the bytes sent end inside
\* the second reply, whose rest waits in the output buffer
C16_Witness ==
    \E fd \in FDs :
        /\ Len(s_wire[fd].frames) = 2
        /\ Len(s_wire[fd].sent) = FrameLen + 2
        /\ s_conn[fd].out_buffer # <<>>
        /\ s_last.op = "tick" /\ s_last.fd = fd

\* C18: while the loop runs, every open connection is registered, for
\* readability exactly when its input buffer is below the cap and for
\* writability exactly when its output buffer is not empty.
C18_RegistrationMatchesBuffers ==
    s_loop = "running" =>
        \A fd \in FDs :
            s_conn[fd].state = "open" =>
                /\ s_epoll[fd].registered
                /\ "IN" \in s_epoll[fd].mask
                        <=> Len(s_conn[fd].in_buffer) < InBufferCap
                /\ "OUT" \in s_epoll[fd].mask
                        <=> s_conn[fd].out_buffer # <<>>

\* after a tick a connection's input buffer has reached the cap while output
\* is pending: it is registered for writability only
C18_Witness ==
    /\ s_last.op = "tick" /\ s_loop = "running"
    /\ s_conn[s_last.fd].state = "open"
    /\ Len(s_conn[s_last.fd].in_buffer) >= InBufferCap
    /\ s_conn[s_last.fd].out_buffer # <<>>
    /\ s_epoll[s_last.fd].registered
    /\ s_epoll[s_last.fd].mask = {"OUT"}

\* C20: a tick that finds whole request frames in the input buffer of a
\* connection without iterator takes the first one only and leaves its
\* iterator in _more.
C20_FirstFrameOnly ==
    (/\ s_last.op = "tick"
     /\ s_last.read # <<>>
     /\ \A i \in 1..Len(s_last.read) :
            \E j \in 1..Len(ServeMessages) : s_last.read[i] = EncodeMessage(j))
        => /\ Len(s_last.read) = 1
           /\ s_last.message = s_last.read[1]

\* C23: while a connection holds unsent reply bytes its iterator is not
\* advanced faster than the socket drains them: a tick of a connection whose
\* output buffer was not empty leaves no more bytes in it than it found.
C23_IteratorWaitsForDrain ==
    [][\A fd \in FDs :
          (/\ s_conn[fd].state = "open" /\ s_conn'[fd].state = "open"
           /\ s_conn[fd].out_buffer # <<>>)
          => Len(s_conn'[fd].out_buffer) <= Len(s_conn[fd].out_buffer)]_vars

\* C26: the iterator kept for a file descriptor belongs to the connection
\* that is open on it: no iterator of a closed connection stays in _more,
\* and a connection is never accepted on a descriptor that still has one, so
\* that a reply is only written to the connection its request came from.
C26_IteratorOnlyOfOpenConnection ==
    /\ \A fd \in FDs : s_more[fd].active => s_conn[fd].state = "open"
    /\ s_last.op = "accept" => ~s_last.had_iterator

----------------------------------------------------------------------------
(* Claims about the progress of the event loop, under SpecLive *)

\* the input buffer of fd holds a whole request frame and nothing else, and
\* no bytes of the peer are on their way
HoldsFrame(fd) ==
    /\ \E i \in 1..Len(ServeMessages) :
            s_conn[fd].in_buffer = EncodeMessage(i) \o <<NUL>>
    /\ s_sock[fd].rx = <<>>

\* the connection is no longer served: it was closed, its peer has closed,
\* or serve() has ended
Over(fd) ==
    \/ s_loop # "running"
    \/ s_conn[fd].state # "open"
    \/ s_sock[fd].peer # "open"

\* the tick that ended the call on fd has left a request in its input
\* buffer: the tick found an iterator and read nothing, so the frame was
\* received while the iterator was active
HeldAfterCall(fd) ==
    /\ ~Over(fd)
    /\ s_last.op = "tick" /\ s_last.fd = fd /\ s_last.had_iterator
    /\ ~s_more[fd].active
    /\ HoldsFrame(fd)

\* C21: a whole request frame that arrived while an iterator was active on
\* its connection is, once that call is over, eventually taken out of the
\* input buffer and dispatched, even if the peer sends nothing more
\* (provided the connection stays open).
C21_HeldFrameDispatched ==
    \A fd \in FDs :
        HeldAfterCall(fd) ~> (s_conn[fd].in_buffer = <<>> \/ Over(fd))

\* replies wait in the output buffer of fd, or a call is under way on it
Pending(fd) == s_conn[fd].out_buffer # <<>> \/ s_more[fd].active

\* every reply produced on fd was sent in full and no iterator is active
Settled(fd) ==
    /\ s_conn[fd].out_buffer = <<>>
    /\ s_wire[fd].sent = EncodeAll(s_wire[fd].frames)
    /\ ~s_more[fd].active

\* C25: while the connection stays open and the loop runs, the replies
\* appended to the output buffer are eventually sent in full and the
\* iterator of the call is eventually discarded, leaving the connection
\* without active iterator.
C25_RepliesSentIteratorDiscarded ==
    \A fd \in FDs :
        Pending(fd)
            ~> (Settled(fd) \/ s_loop # "running" \/ s_conn[fd].state # "open")

\* both replies of a streaming call were sent in full and its iterator was
\* discarded, the connection still open
C25_Witness ==
    \E fd \in FDs :
        /\ s_loop = "running"
        /\ s_conn[fd].state = "open"
        /\ Len(s_wire[fd].frames) = 2
        /\ s_wire[fd].sent = EncodeAll(s_wire[fd].frames)
        /\ s_conn[fd].out_buffer = <<>>
        /\ ~s_more[fd].active
        /\ s_last.op = "tick" /\ s_last.fd = fd /\ s_last.had_iterator

----------------------------------------------------------------------------
(* Claims about the parameter filter, under SpecFilter *)

\* C17: when the positional tuple is used up before all the fields are
\* filled, every remaining field that the keyword mapping has is filled from
\* it: positional (1) and keyword b = 2 give {a: 1, b: 2}.
C17_KeywordsFillRemaining ==
    (f_pc = "returned" /\ f_args # <<>>) =>
        \A i \in (Len(f_args) + 1)..Len(StructFields) :
            StructFields[i] \in DOMAIN f_kwargs =>
                /\ StructFields[i] \in DOMAIN f_out
                /\ f_out[StructFields[i]] = f_kwargs[StructFields[i]]

----------------------------------------------------------------------------
(* Claims about a streaming client call, under SpecStream *)

\* the position in the peer's replies of the first one without continues:
\* true, or 0 when there is none yet
FirstTerminal ==
    IF \E i \in 1..Len(m_script) : Terminal(m_script[i])
    THEN CHOOSE i \in 1..Len(m_script) :
            Terminal(m_script[i]) /\ \A j \in 1..(i - 1) : ~Terminal(m_script[j])
    ELSE 0

\* C19: a streaming client call yields the parameters of the replies in the
\* order they arrive, one per reply, up to the first reply without
\* continues: true; it raises only at end of file, and when it has ended
\* the bytes of the replies after the terminal one are still unread.
C19_StreamYieldsUpToTerminal ==
    /\ \A i \in 1..Len(m_yielded) : m_yielded[i] = i
    /\ FirstTerminal # 0 => Len(m_yielded) <= FirstTerminal
    /\ m_pc \notin {"created", "_next", "yielded", "done"}
            => (m_pc = "ConnectionError" /\ m_sock.peer = "closed")
    /\ m_pc = "done" =>
            /\ Len(m_yielded) = FirstTerminal
            /\ m_in_buffer \o m_sock.rx
                    = EncodeAll(SubSeq(m_script, FirstTerminal + 1, Len(m_script)))

====
